---- MODULE Spec2Model ----
(***************************************************************************)
(* Model of the gueripep/wordle-solver core: the feedback engine           *)
(* (src/utils/feedback.ts), the candidate filter (src/core/filter.ts),     *)
(* the entropy model (src/core/entropy.ts) and the solve loop              *)
(* (src/services/solver.ts).                                               *)
(*                                                                         *)
(* A word is a tuple of one-character strings; positions are 1-based here  *)
(* and 0-based in the source.                                              *)
(***************************************************************************)
EXTENDS Integers, Sequences, FiniteSets, TLC

VARIABLES
    wordList,        \* the list getWordList() returns (word-list.ts cache)
    fbGuess,         \* calculateWordleFeedback: argument guess
    fbTarget,        \* calculateWordleFeedback: argument target
    fbResult,        \* calculateWordleFeedback: returned GuessFeedback
    fbIsCorrect,     \* isCorrectGuess(fbResult)
    fbError,         \* message of the Error calculateWordleFeedback threw, "" if none
    fbPc,            \* "call" | "returned" | "threw"
    flHistory,       \* getAvailableWordsFromMultipleFeedbacks: argument feedbacks
    flResult,        \* getAvailableWordsFromMultipleFeedbacks: returned list
    flAgain,         \* the result filtered once more by every entry of flHistory
    flOther,         \* the result for flHistory with other letter fields
    flPc,            \* "build" | "returned" | "refiltered"
    enGuess,         \* calculateLetterStateProbabilities: argument guess
    enPool,          \* the wordList argument of the entropy functions
    enProbs,         \* calculateLetterStateProbabilities: returned list
    enEntropy,       \* calculateAverageEntropy: returned value
    enDouble,        \* calculateAverageEntropy: returned value, as the double it is
    enLog2Ulp,       \* error of Math.log2 in units of the last place
    enBest,          \* findHighestEntropyGuess: returned HighestEntropyResult
    enPc,            \* "call" | "scored" | "returned" | "threw"
    targetWord,      \* solve: argument targetWord
    maxAttempts,     \* solve: argument maxAttempts
    attempt,         \* solve: loop counter
    attempts,        \* solve: GuessAttempt[] built so far
    feedbackHistory, \* solve: GuessWithFeedback[] built so far
    solved,          \* solve: local flag
    svError,         \* message of the Error solve threw, "" if none
    svPc,            \* "loop" | "returned" | "threw"
    gmSolution,      \* InteractiveWordleGame: gameState.solution
    gmMaxAttempts,   \* gameState.maxAttempts
    gmAttempts,      \* gameState.attempts
    gmIsComplete,    \* gameState.isComplete
    gmIsWon,         \* gameState.isWon
    gmAnswer,        \* the last answer getGuess read, trimmed and lower-cased
    gmHint,          \* what provideHint printed last
    gmError,         \* message of the Error play() rejected with, "" if none
    gmPc             \* "play" | "returned" | "threw"

fbVars == <<fbGuess, fbTarget, fbResult, fbIsCorrect, fbError, fbPc>>
flVars == <<flHistory, flResult, flAgain, flOther, flPc>>
enVars == <<enGuess, enPool, enProbs, enEntropy, enDouble, enLog2Ulp, enBest, enPc>>
svVars == <<targetWord, maxAttempts, attempt, attempts, feedbackHistory, solved, svError, svPc>>
gmVars == <<gmSolution, gmMaxAttempts, gmAttempts, gmIsComplete, gmIsWon, gmAnswer, gmHint,
           gmError, gmPc>>
vars == <<wordList, fbVars, flVars, enVars, svVars, gmVars>>

----------------------------------------------------------------------------
(* Characters and case conversion                                          *)

LowerChars == <<"a", "b", "c", "e", "l", "n", "p", "s", "t", "y">>
UpperChars == <<"A", "B", "C", "E", "L", "N", "P", "S", "T", "Y">>

Chars == {LowerChars[k] : k \in 1..Len(LowerChars)} \cup {UpperChars[k] : k \in 1..Len(UpperChars)}

IndexOf(seq, c) == CHOOSE k \in 1..Len(seq) : seq[k] = c

IsUpperChar(c) == \E k \in 1..Len(UpperChars) : UpperChars[k] = c
IsLowerChar(c) == \E k \in 1..Len(LowerChars) : LowerChars[k] = c

\* the lower-case and upper-case form of every character
LowerOf == [c \in Chars |-> IF IsUpperChar(c) THEN LowerChars[IndexOf(UpperChars, c)] ELSE c]
UpperOf == [c \in Chars |-> IF IsLowerChar(c) THEN UpperChars[IndexOf(LowerChars, c)] ELSE c]

\* String.prototype.toLowerCase, character by character
toLowerCase(w) == [i \in 1..Len(w) |-> LowerOf[w[i]]]

\* String.prototype.toUpperCase, character by character
toUpperCase(w) == [i \in 1..Len(w) |-> UpperOf[w[i]]]

----------------------------------------------------------------------------
(* src/utils/feedback.ts                                                   *)

WordLength == 5

CORRECT == "correct"
PRESENT == "present"
ABSENT == "absent"
LetterState == {CORRECT, PRESENT, ABSENT}

LengthError == "Both guess and target must be exactly 5 letters"

\* mutation: only words that are too short are rejected
FeedbackLengthAtLeast(guess, target) == Len(guess) >= WordLength /\ Len(target) >= WordLength

\* the guard of the throw at the top of calculateWordleFeedback
FeedbackLengthOk(guess, target) == Len(guess) = WordLength /\ Len(target) = WordLength

\* the first loop from position i on, with the state it stores for a
\* position that does not match
RECURSIVE FirstPassFrom(_, _, _, _, _)
FirstPassFrom(guessLower, targetLower, default, result, i) ==
    IF i > WordLength THEN result
    ELSE FirstPassFrom(guessLower, targetLower, default,
                       Append(result,
                              [letter |-> guessLower[i],
                               state  |-> IF guessLower[i] = targetLower[i]
                                          THEN CORRECT ELSE default]),
                       i + 1)

\* mutation: a letter off its position is PRESENT by default
FirstPassDefaultPresent(guessLower, targetLower) ==
    FirstPassFrom(guessLower, targetLower, PRESENT, <<>>, 1)

\* first pass: exact-position matches, everything else ABSENT by default
FirstPass(guessLower, targetLower) ==
    FirstPassFrom(guessLower, targetLower, ABSENT, <<>>, 1)

\* mutation: the first pass records no used target position
FirstPassUsedNone(guessLower, targetLower) == {}

\* usedTargetIndices after the first pass
FirstPassUsed(guessLower, targetLower) ==
    {i \in 1..WordLength : guessLower[i] = targetLower[i]}

\* mutation: the scan forgets which target positions are already consumed
UnusedMatchesIgnoringUsed(guessLower, targetLower, used, i) ==
    {j \in 1..WordLength : guessLower[i] = targetLower[j]}

\* the target positions the inner loop of the second pass may stop at
UnusedMatches(guessLower, targetLower, used, i) ==
    {j \in 1..WordLength : j \notin used /\ guessLower[i] = targetLower[j]}

SetMin(S) == CHOOSE m \in S : \A n \in S : m <= n

\* mutation: the second pass visits the guess positions from the right
RECURSIVE SecondPassRightToLeft(_, _, _, _, _)
SecondPassRightToLeft(guessLower, targetLower, result, used, i) ==
    IF i > WordLength THEN result
    ELSE LET p == WordLength + 1 - i
             js == UnusedMatches(guessLower, targetLower, used, p)
         IN  IF result[p].state = ABSENT /\ js # {}
             THEN SecondPassRightToLeft(guessLower, targetLower,
                                        [result EXCEPT ![p].state = PRESENT],
                                        used \cup {SetMin(js)}, i + 1)
             ELSE SecondPassRightToLeft(guessLower, targetLower, result, used, i + 1)

\* second pass: positions i, i+1, ... in order; the inner loop takes the
\* leftmost unused target position holding the letter
RECURSIVE SecondPass(_, _, _, _, _)
SecondPass(guessLower, targetLower, result, used, i) ==
    IF i > WordLength THEN result
    ELSE LET js == UnusedMatches(guessLower, targetLower, used, i)
         IN  IF result[i].state = ABSENT /\ js # {}
             THEN SecondPass(guessLower, targetLower,
                             [result EXCEPT ![i].state = PRESENT],
                             used \cup {SetMin(js)}, i + 1)
             ELSE SecondPass(guessLower, targetLower, result, used, i + 1)

\* mutation: the target is compared as given, not lower-cased
calculateWordleFeedbackRawTarget(guess, target) ==
    LET guessLower == toLowerCase(guess)
    IN  SecondPass(guessLower, target, FirstPass(guessLower, target),
                   FirstPassUsed(guessLower, target), 1)

\* calculateWordleFeedback for arguments that pass the length check
calculateWordleFeedback(guess, target) ==
    LET guessLower == toLowerCase(guess)
        targetLower == toLowerCase(target)
    IN  SecondPass(guessLower, targetLower, FirstPass(guessLower, targetLower),
                   FirstPassUsed(guessLower, targetLower), 1)

isCorrectGuess(feedback) == \A i \in 1..Len(feedback) : feedback[i].state = CORRECT

\* feedbackToString: `${letter}:${state}` joined by '|', as a token sequence
RECURSIVE feedbackToString(_)
feedbackToString(feedback) ==
    IF Len(feedback) = 0 THEN <<>>
    ELSE IF Len(feedback) = 1 THEN <<feedback[1].letter, ":", feedback[1].state>>
    ELSE <<feedback[1].letter, ":", feedback[1].state, "|">> \o feedbackToString(Tail(feedback))

States(feedback) == [i \in 1..Len(feedback) |-> feedback[i].state]

----------------------------------------------------------------------------
(* Inputs of the feedback engine                                           *)

FbLetters == {"a", "b", "c"}
FbWords == [1..WordLength -> FbLetters]
FbCaseLetters == {"a", "b"}
FbCaseWords == {toUpperCase(w) : w \in [1..WordLength -> FbCaseLetters]}

ALLEY == <<"A", "L", "L", "E", "Y">>
PLANE == <<"P", "L", "A", "N", "E">>
BadLengthWords == {<<>>, <<"a", "b", "c", "a">>, <<"a", "b", "c", "a", "b", "c">>}

FbGuesses == FbWords \cup FbCaseWords \cup {ALLEY} \cup BadLengthWords
FbTargets == FbWords \cup FbCaseWords \cup {PLANE} \cup BadLengthWords

IdleFeedback ==
    /\ fbGuess = <<>> /\ fbTarget = <<>> /\ fbResult = <<>>
    /\ fbIsCorrect = FALSE /\ fbError = "" /\ fbPc = "idle"

IdleFilter ==
    /\ flHistory = <<>> /\ flResult = <<>> /\ flAgain = <<>> /\ flOther = <<>>
    /\ flPc = "idle"

\* the double 0
DoubleZero == [neg |-> FALSE, m |-> <<>>, e |-> 0]

IdleEntropy ==
    /\ enGuess = <<>> /\ enPool = <<>> /\ enProbs = <<>>
    /\ enEntropy = [num |-> 0, den |-> 1] /\ enBest = <<>> /\ enPc = "idle"
    /\ enDouble = DoubleZero /\ enLog2Ulp = 0

IdleSolve ==
    /\ targetWord = <<>> /\ maxAttempts = 0 /\ attempt = 0 /\ attempts = <<>>
    /\ feedbackHistory = <<>> /\ solved = FALSE /\ svError = "" /\ svPc = "idle"

NoHint == [kind |-> "none", word |-> <<>>]

IdleGame ==
    /\ gmSolution = <<>> /\ gmMaxAttempts = 0 /\ gmAttempts = <<>>
    /\ gmIsComplete = FALSE /\ gmIsWon = FALSE
    /\ gmAnswer = [isCommand |-> FALSE, text |-> <<>>] /\ gmHint = NoHint
    /\ gmError = "" /\ gmPc = "idle"

InitFeedback ==
    /\ wordList = <<>>
    /\ fbGuess \in FbGuesses
    /\ fbTarget \in FbTargets
    /\ fbResult = <<>>
    /\ fbIsCorrect = FALSE
    /\ fbError = ""
    /\ fbPc = "call"
    /\ IdleFilter /\ IdleEntropy /\ IdleSolve /\ IdleGame

\* calculateWordleFeedback(fbGuess, fbTarget) returns; isCorrectGuess is applied to it
FbCalculate ==
    /\ fbPc = "call"
    /\ FeedbackLengthOk(fbGuess, fbTarget)
    /\ fbResult' = calculateWordleFeedback(fbGuess, fbTarget)
    /\ fbIsCorrect' = isCorrectGuess(calculateWordleFeedback(fbGuess, fbTarget))
    /\ fbPc' = "returned"
    /\ UNCHANGED <<wordList, fbGuess, fbTarget, fbError, flVars, enVars, svVars, gmVars>>

\* calculateWordleFeedback(fbGuess, fbTarget) throws the length error
FbThrow ==
    /\ fbPc = "call"
    /\ ~FeedbackLengthOk(fbGuess, fbTarget)
    /\ fbError' = LengthError
    /\ fbPc' = "threw"
    /\ UNCHANGED <<wordList, fbGuess, fbTarget, fbResult, fbIsCorrect, flVars, enVars, svVars, gmVars>>

NextFeedback == FbCalculate \/ FbThrow

SpecFeedback == InitFeedback /\ [][NextFeedback]_vars

----------------------------------------------------------------------------
(* The reference word list (src/data/word-list.ts): an ordered list of     *)
(* distinct lower-case 5-letter words                                      *)

slate == <<"s", "l", "a", "t", "e">>
plate == <<"p", "l", "a", "t", "e">>
place == <<"p", "l", "a", "c", "e">>
plane == <<"p", "l", "a", "n", "e">>
alley == <<"a", "l", "l", "e", "y">>
least == <<"l", "e", "a", "s", "t">>
steal == <<"s", "t", "e", "a", "l">>
bobby == <<"b", "b", "b", "b", "y">>

Universe == <<slate, plate, place, plane, alley, least, steal>>

MaxListLen == 4

\* the words of Universe at the positions S, in Universe order
RECURSIVE PickFrom(_, _)
PickFrom(S, k) ==
    IF k > Len(Universe) THEN <<>>
    ELSE IF k \in S THEN <<Universe[k]>> \o PickFrom(S, k + 1)
    ELSE PickFrom(S, k + 1)

\* the lists the repository may hold: nonempty (tests/word-list.test.ts)
WordLists ==
    {PickFrom(S, 1) : S \in {T \in SUBSET (1..Len(Universe)) :
                                 Cardinality(T) >= 1 /\ Cardinality(T) <= MaxListLen}}

Range(seq) == {seq[k] : k \in 1..Len(seq)}

\* getWordList(): the cached list
getWordList == wordList

----------------------------------------------------------------------------
(* src/core/filter.ts                                                      *)

\* mutation: a position the candidate matches exactly is accepted as it is
MatchesFeedbackCorrectAccepted(word, guess, feedback) ==
    LET testFeedback == calculateWordleFeedback(guess, word)
    IN  \A i \in 1..WordLength :
            testFeedback[i].state = feedback[i].state \/ testFeedback[i].state = CORRECT

\* mutation: the whole entries are compared, the letter fields included
MatchesFeedbackWithLetters(word, guess, feedback) ==
    LET testFeedback == calculateWordleFeedback(guess, word)
    IN  \A i \in 1..WordLength : testFeedback[i] = feedback[i]

\* the predicate of words.filter: every position's state equals the feedback's
MatchesFeedback(word, guess, feedback) ==
    LET testFeedback == calculateWordleFeedback(guess, word)
    IN  \A i \in 1..WordLength : testFeedback[i].state = feedback[i].state

\* mutation: guess and candidate swapped in the call to calculateWordleFeedback
filterWordsByFeedbackSwapped(words, guess, feedback) ==
    SelectSeq(words, LAMBDA word :
        LET testFeedback == calculateWordleFeedback(word, guess)
        IN  \A i \in 1..WordLength : testFeedback[i].state = feedback[i].state)

filterWordsByFeedback(words, guess, feedback) ==
    SelectSeq(words, LAMBDA word : MatchesFeedback(word, guess, feedback))

\* mutation: an entry that would empty the list is passed over
RECURSIVE FilterLoopSkipsEmptying(_, _, _)
FilterLoopSkipsEmptying(availableWords, feedbacks, k) ==
    IF k > Len(feedbacks) THEN availableWords
    ELSE LET filtered == filterWordsByFeedback(availableWords, feedbacks[k].guess,
                                               feedbacks[k].feedback)
         IN  IF Len(filtered) = 0
             THEN FilterLoopSkipsEmptying(availableWords, feedbacks, k + 1)
             ELSE FilterLoopSkipsEmptying(filtered, feedbacks, k + 1)

\* mutation: an emptied list is replaced by the full word list
RECURSIVE FilterLoopRefillEmpty(_, _, _)
FilterLoopRefillEmpty(availableWords, feedbacks, k) ==
    IF k > Len(feedbacks) THEN availableWords
    ELSE LET filtered == filterWordsByFeedback(availableWords, feedbacks[k].guess,
                                               feedbacks[k].feedback)
         IN  IF Len(filtered) = 0 THEN FilterLoopRefillEmpty(getWordList, feedbacks, k + 1)
             ELSE FilterLoopRefillEmpty(filtered, feedbacks, k + 1)

\* mutation: every entry filters the full word list, not the running list
RECURSIVE FilterLoopFromFullList(_, _, _)
FilterLoopFromFullList(availableWords, feedbacks, k) ==
    IF k > Len(feedbacks) THEN availableWords
    ELSE LET filtered == filterWordsByFeedback(getWordList, feedbacks[k].guess,
                                               feedbacks[k].feedback)
         IN  IF Len(filtered) = 0 THEN filtered
             ELSE FilterLoopFromFullList(filtered, feedbacks, k + 1)

\* the for-of loop over feedbacks from entry k on, with its early exit
RECURSIVE FilterLoop(_, _, _)
FilterLoop(availableWords, feedbacks, k) ==
    IF k > Len(feedbacks) THEN availableWords
    ELSE LET filtered == filterWordsByFeedback(availableWords, feedbacks[k].guess,
                                               feedbacks[k].feedback)
         IN  IF Len(filtered) = 0 THEN filtered
             ELSE FilterLoop(filtered, feedbacks, k + 1)

\* a string argument and a GuessFeedback argument of the overloaded function
StringArg(guess) == [isString |-> TRUE, value |-> guess]
FeedbackArg(feedback) == [isString |-> FALSE, value |-> feedback]

\* targetFeedback.map(f => f.letter).join('')
LettersJoined(feedback) == [i \in 1..Len(feedback) |-> feedback[i].letter]

\* both signatures: (guess, feedback) and the legacy (feedback)
getAvailableWordsFromFeedback(guessOrFeedback, feedback) ==
    IF guessOrFeedback.isString
    THEN filterWordsByFeedback(getWordList, guessOrFeedback.value, feedback)
    ELSE filterWordsByFeedback(getWordList, LettersJoined(guessOrFeedback.value),
                               guessOrFeedback.value)

\* mutation: the loop is left after its first entry
getAvailableWordsFirstEntryOnly(feedbacks) ==
    IF Len(feedbacks) = 0 THEN getWordList
    ELSE filterWordsByFeedback(getWordList, feedbacks[1].guess, feedbacks[1].feedback)

getAvailableWordsFromMultipleFeedbacks(feedbacks) ==
    IF Len(feedbacks) = 0 THEN getWordList
    ELSE FilterLoop(getWordList, feedbacks, 1)

----------------------------------------------------------------------------
(* Inputs of the candidate filter                                          *)

MaxHistory == 2

FlGuesses == {slate, alley, toUpperCase(least)}
FlScoredAgainst == {plane, steal}
FlForgedStates == {[i \in 1..WordLength |-> PRESENT]}
FlForgedLetters == {bobby, <<"Y", "E", "L", "L", "A">>}

\* the longer word lists of WordLists
FlWordLists == {l \in WordLists : Len(l) + 1 >= MaxListLen}

InitFilter ==
    /\ wordList \in FlWordLists
    /\ flHistory = <<>>
    /\ flResult = <<>>
    /\ flAgain = <<>>
    /\ flOther = <<>>
    /\ flPc = "build"
    /\ IdleFeedback /\ IdleEntropy /\ IdleSolve /\ IdleGame

\* the caller appends the feedback some word gives to a guess
FlAddEntry ==
    /\ flPc = "build"
    /\ Len(flHistory) < MaxHistory
    /\ \E guess \in FlGuesses, word \in FlScoredAgainst :
          flHistory' = Append(flHistory,
                              [guess |-> guess, feedback |-> calculateWordleFeedback(guess, word)])
    /\ UNCHANGED <<wordList, flResult, flAgain, flOther, flPc, fbVars, enVars, svVars, gmVars>>

\* the caller appends a feedback it made up
FlAddForgedEntry ==
    /\ flPc = "build"
    /\ Len(flHistory) < MaxHistory
    /\ \E guess \in FlGuesses, states \in FlForgedStates :
          flHistory' = Append(flHistory,
                              [guess |-> guess,
                               feedback |-> [i \in 1..WordLength |->
                                                [letter |-> toLowerCase(guess)[i],
                                                 state |-> states[i]]]])
    /\ UNCHANGED <<wordList, flResult, flAgain, flOther, flPc, fbVars, enVars, svVars, gmVars>>

\* getAvailableWordsFromMultipleFeedbacks(flHistory) returns
FlNarrow ==
    /\ flPc = "build"
    /\ flResult' = getAvailableWordsFromMultipleFeedbacks(flHistory)
    /\ flPc' = "returned"
    /\ UNCHANGED <<wordList, flHistory, flAgain, flOther, fbVars, enVars, svVars, gmVars>>

\* the caller applies filterWordsByFeedback to the result, once per entry, in order
RECURSIVE Refilter(_, _, _)
Refilter(words, feedbacks, k) ==
    IF k > Len(feedbacks) THEN words
    ELSE Refilter(filterWordsByFeedback(words, feedbacks[k].guess, feedbacks[k].feedback),
                  feedbacks, k + 1)

FlRefilter ==
    /\ flPc = "returned"
    /\ flAgain' = Refilter(flResult, flHistory, 1)
    /\ flPc' = "refiltered"
    /\ UNCHANGED <<wordList, flHistory, flResult, flOther, fbVars, enVars, svVars, gmVars>>

\* the feedback with its letter fields replaced, the states kept
WithLetters(feedback, letters) ==
    [i \in 1..Len(feedback) |-> [letter |-> letters[i], state |-> feedback[i].state]]

\* the history with the letter fields of every feedback replaced
WithLettersAll(feedbacks, letters) ==
    [k \in 1..Len(feedbacks) |->
        [guess |-> feedbacks[k].guess, feedback |-> WithLetters(feedbacks[k].feedback, letters)]]

\* the caller repeats the call with the same guesses and states but other letters
FlNarrowOtherLetters ==
    /\ flPc = "returned"
    /\ Len(flHistory) >= 1
    /\ \E letters \in FlForgedLetters :
          flOther' = getAvailableWordsFromMultipleFeedbacks(WithLettersAll(flHistory, letters))
    /\ flPc' = "relettered"
    /\ UNCHANGED <<wordList, flHistory, flResult, flAgain, fbVars, enVars, svVars, gmVars>>

NextFilter == FlAddEntry \/ FlAddForgedEntry \/ FlNarrow \/ FlRefilter \/ FlNarrowOtherLetters

SpecFilter == InitFilter /\ [][NextFilter]_vars

----------------------------------------------------------------------------
(* src/core/entropy.ts                                                     *)
(*                                                                         *)
(* Numbers: a probability count / totalWords is the pair                   *)
(* [num |-> count, den |-> totalWords]; -Math.log2 and the entropy are in  *)
(* micro-bits (Log2Micro[n] = floor(10^6 * log2(n))), the entropy again a  *)
(* pair over totalWords.  An optional wordList argument is the record      *)
(* [given, list]; an array, even an empty one, is truthy in                *)
(* `wordList || getWordList()`.                                            *)

Log2Micro ==
    <<0, 1000000, 1584962, 2000000, 2321928, 2584962, 2807354, 3000000, 3169925, 3321928,
      3459431, 3584962, 3700439>>

Given(list) == [given |-> TRUE, list |-> list]
Undefined == [given |-> FALSE, list |-> <<>>]

\* wordList || getWordList()
OrWordList(wordListArg) == IF wordListArg.given THEN wordListArg.list ELSE getWordList

\* a < b, a and b pairs num/den with den > 0
RatLess(a, b) == a.num * b.den < b.num * a.den

\* the position in groups of the entry with this key, 0 if there is none
KeyIndex(groups, key) ==
    IF \E e \in 1..Len(groups) : groups[e].key = key
    THEN CHOOSE e \in 1..Len(groups) : groups[e].key = key
    ELSE 0

\* mutation: the key of a pattern leaves the states out
feedbackKeyLettersOnly(feedback) == [i \in 1..Len(feedback) |-> feedback[i].letter]

\* the Map key of a feedback pattern
feedbackKey(feedback) == feedbackToString(feedback)

\* the first loop: the two Maps after the words from position k on, as one
\* list of [key, guessFeedback, matchingWords, count] in insertion order
RECURSIVE GroupByFeedback(_, _, _, _)
GroupByFeedback(guess, words, k, groups) ==
    IF k > Len(words) THEN groups
    ELSE LET feedback == calculateWordleFeedback(guess, words[k])
             key == feedbackKey(feedback)
             e == KeyIndex(groups, key)
         IN  IF e = 0
             THEN GroupByFeedback(guess, words, k + 1,
                      Append(groups, [key |-> key, guessFeedback |-> feedback,
                                      matchingWords |-> <<words[k]>>, count |-> 1]))
             ELSE GroupByFeedback(guess, words, k + 1,
                      [groups EXCEPT ![e].matchingWords = Append(@, words[k]),
                                     ![e].count = @ + 1])

\* probability > 0 ? -Math.log2(probability) : 0
SelfInformation(count, totalWords) ==
    IF count > 0 THEN Log2Micro[totalWords] - Log2Micro[count] ELSE 0

\* mutation: the counts are divided by one more than the number of words
ToProbabilitiesOffByOne(groups, totalWords) ==
    [e \in 1..Len(groups) |->
        [guessFeedback   |-> groups[e].guessFeedback,
         probability     |-> [num |-> groups[e].count, den |-> totalWords + 1],
         selfInformation |-> SelfInformation(groups[e].count, totalWords),
         matchingWords   |-> groups[e].matchingWords]]

\* the second loop: one result entry per key, in insertion order
ToProbabilities(groups, totalWords) ==
    [e \in 1..Len(groups) |->
        [guessFeedback   |-> groups[e].guessFeedback,
         probability     |-> [num |-> groups[e].count, den |-> totalWords],
         selfInformation |-> SelfInformation(groups[e].count, totalWords),
         matchingWords   |-> groups[e].matchingWords]]

\* insert entry x into a list sorted by descending probability, after its equals
RECURSIVE InsertByProbability(_, _)
InsertByProbability(sorted, x) ==
    IF Len(sorted) = 0 THEN <<x>>
    ELSE IF RatLess(Head(sorted).probability, x.probability)
         THEN <<x>> \o sorted
         ELSE <<Head(sorted)>> \o InsertByProbability(Tail(sorted), x)

\* result.sort((a, b) => b.probability - a.probability), a stable sort
RECURSIVE SortByProbability(_, _, _)
SortByProbability(result, k, sorted) ==
    IF k > Len(result) THEN sorted
    ELSE SortByProbability(result, k + 1, InsertByProbability(sorted, result[k]))

calculateLetterStateProbabilities(guess, wordListArg) ==
    LET words == OrWordList(wordListArg)
    IN  SortByProbability(ToProbabilities(GroupByFeedback(guess, words, 1, <<>>), Len(words)),
                          1, <<>>)

\* weightedSum after the items from position k on, as the numerator over
\* the common denominator totalWords of the probabilities
RECURSIVE WeightedSum(_, _, _)
WeightedSum(probabilityData, k, sum) ==
    IF k > Len(probabilityData) THEN sum
    ELSE WeightedSum(probabilityData, k + 1,
                     sum + probabilityData[k].probability.num
                             * probabilityData[k].selfInformation)

calculateAverageEntropy(guess, wordListArg) ==
    LET probabilityData == calculateLetterStateProbabilities(guess, wordListArg)
    IN  [num |-> WeightedSum(probabilityData, 1, 0),
         den |-> IF Len(probabilityData) = 0 THEN 1 ELSE probabilityData[1].probability.den]

\* highestEntropy = -1
InitialHighestEntropy == [num |-> -1000000, den |-> 1]

\* mutation: a later word of equal entropy replaces the best one
EntropyExceedsOrEquals(entropy, highestEntropy) == ~RatLess(entropy, highestEntropy)

\* entropy > highestEntropy
EntropyExceeds(entropy, highestEntropy) == RatLess(highestEntropy, entropy)

\* the loop over words from position k on; best is [guess, averageEntropy]
RECURSIVE BestGuessLoop(_, _, _, _)
BestGuessLoop(words, wordListArg, k, best) ==
    IF k > Len(words) THEN best
    ELSE LET entropy == calculateAverageEntropy(words[k], wordListArg)
         IN  IF EntropyExceeds(entropy, best.averageEntropy)
             THEN BestGuessLoop(words, wordListArg, k + 1,
                                [guess |-> words[k], averageEntropy |-> entropy])
             ELSE BestGuessLoop(words, wordListArg, k + 1, best)

NoWordsError == "No valid words found in word list"

\* bestGuess and highestEntropy when the loop of findHighestEntropyGuess ends
BestGuess(wordListArg) ==
    BestGuessLoop(OrWordList(wordListArg), wordListArg, 1,
                  [guess |-> <<>>, averageEntropy |-> InitialHighestEntropy])

\* mutation: the empty best guess is returned instead of thrown
findHighestEntropyGuessNeverThrows(wordListArg) == FALSE

\* if (bestGuess === '') throw
findHighestEntropyGuessThrows(wordListArg) == BestGuess(wordListArg).guess = <<>>

\* new HighestEntropyResult(bestGuess, highestEntropy)
findHighestEntropyGuess(wordListArg) == BestGuess(wordListArg)

----------------------------------------------------------------------------
(* The numbers of src/core/entropy.ts as the code computes them            *)
(*                                                                         *)
(* Every `number` of entropy.ts is an IEEE-754 double.  A natural number   *)
(* is a list of limbs below LimbBase, lowest first and without leading     *)
(* zero limbs; a double is [neg, m, e] of value (-1)^neg * m * 2^e where m *)
(* has exactly SignificandBits bits, and zero is DoubleZero.  The values   *)
(* of the entropy of a word list neither overflow nor become subnormal.    *)

SignificandBits == 53
LimbBits == 15
LimbBase == 2^LimbBits

RECURSIVE BigTrim(_)
BigTrim(x) ==
    IF Len(x) > 0 /\ x[Len(x)] = 0 THEN BigTrim(SubSeq(x, 1, Len(x) - 1)) ELSE x

RECURSIVE BigFromInt(_)
BigFromInt(n) ==
    IF n = 0 THEN <<>> ELSE <<n % LimbBase>> \o BigFromInt(n \div LimbBase)

Limb(x, i) == IF i <= Len(x) THEN x[i] ELSE 0

\* the limbs of x + y + carry from limb i on
RECURSIVE BigAddFrom(_, _, _, _)
BigAddFrom(x, y, i, carry) ==
    IF i > Len(x) /\ i > Len(y) THEN BigFromInt(carry)
    ELSE LET s == Limb(x, i) + Limb(y, i) + carry
         IN  <<s % LimbBase>> \o BigAddFrom(x, y, i + 1, s \div LimbBase)

BigAdd(x, y) == BigAddFrom(x, y, 1, 0)

\* the limbs of x - y - borrow from limb i on, for x >= y
RECURSIVE BigSubFrom(_, _, _, _)
BigSubFrom(x, y, i, borrow) ==
    IF i > Len(x) THEN <<>>
    ELSE LET d == Limb(x, i) - Limb(y, i) - borrow
         IN  IF d < 0
             THEN <<d + LimbBase>> \o BigSubFrom(x, y, i + 1, 1)
             ELSE <<d>> \o BigSubFrom(x, y, i + 1, 0)

BigSub(x, y) == BigTrim(BigSubFrom(x, y, 1, 0))

\* x < y
BigLess(x, y) ==
    \/ Len(x) < Len(y)
    \/ /\ Len(x) = Len(y)
       /\ \E i \in 1..Len(x) :
              /\ x[i] < y[i]
              /\ \A j \in (i + 1)..Len(x) : x[j] = y[j]

BigIsOdd(x) == x # <<>> /\ x[1] % 2 = 1

\* the limbs of x * k + carry from limb i on, for k < LimbBase
RECURSIVE BigMulSmallFrom(_, _, _, _)
BigMulSmallFrom(x, k, i, carry) ==
    IF i > Len(x) THEN BigFromInt(carry)
    ELSE LET s == x[i] * k + carry
         IN  <<s % LimbBase>> \o BigMulSmallFrom(x, k, i + 1, s \div LimbBase)

BigMulSmall(x, k) == IF k = 0 THEN <<>> ELSE BigMulSmallFrom(x, k, 1, 0)

\* x * LimbBase^n
BigShiftLimbs(x, n) == IF x = <<>> THEN <<>> ELSE [i \in 1..n |-> 0] \o x

RECURSIVE BigMulFrom(_, _, _)
BigMulFrom(x, y, i) ==
    IF i > Len(y) THEN <<>>
    ELSE BigAdd(BigShiftLimbs(BigMulSmall(x, y[i]), i - 1), BigMulFrom(x, y, i + 1))

BigMul(x, y) == BigMulFrom(x, y, 1)

\* quotient limbs 1..i and remainder of (rem * LimbBase^i + limbs 1..i of x)
\* by k, for 0 < k < LimbBase and rem < k
RECURSIVE BigDivSmallFrom(_, _, _, _)
BigDivSmallFrom(x, k, i, rem) ==
    IF i = 0 THEN [q |-> <<>>, r |-> rem]
    ELSE LET cur == rem * LimbBase + x[i]
             rest == BigDivSmallFrom(x, k, i - 1, cur % k)
         IN  [q |-> Append(rest.q, cur \div k), r |-> rest.r]

BigDivSmall(x, k) ==
    LET d == BigDivSmallFrom(x, k, Len(x), 0)
    IN  [q |-> BigTrim(d.q), r |-> d.r]

\* x * 2^b
BigShiftLeft(x, b) ==
    BigShiftLimbs(BigMulSmall(x, 2^(b % LimbBits)), b \div LimbBits)

\* x \div 2^b
BigShiftRight(x, b) ==
    LET n == b \div LimbBits
    IN  IF n >= Len(x) THEN <<>>
        ELSE BigDivSmall(SubSeq(x, n + 1, Len(x)), 2^(b % LimbBits)).q

RECURSIVE BitLength(_)
BitLength(n) == IF n = 0 THEN 0 ELSE 1 + BitLength(n \div 2)

BigBitLength(x) ==
    IF x = <<>> THEN 0 ELSE LimbBits * (Len(x) - 1) + BitLength(x[Len(x)])

\* the double nearest to (-1)^neg * (x + f) * 2^e, ties to even, where
\* 0 <= f < 1 and f > 0 iff sticky; with sticky, x has more than
\* SignificandBits + 1 bits
RoundToDouble(neg, x, e, sticky) ==
    LET bits == BigBitLength(x)
    IN  IF bits = 0 THEN DoubleZero
        ELSE IF bits <= SignificandBits
        THEN [neg |-> neg,
              m   |-> BigShiftLeft(x, SignificandBits - bits),
              e   |-> e - (SignificandBits - bits)]
        ELSE LET shift == bits - SignificandBits
                 kept == BigShiftRight(x, shift - 1)
                 truncated == BigShiftRight(kept, 1)
                 inexact == sticky \/ BigShiftLeft(kept, shift - 1) # x
                 up == BigIsOdd(kept) /\ (inexact \/ BigIsOdd(truncated))
                 m == IF up THEN BigAdd(truncated, <<1>>) ELSE truncated
             IN  IF BigBitLength(m) > SignificandBits
                 THEN [neg |-> neg, m |-> BigShiftRight(m, 1), e |-> e + shift + 1]
                 ELSE [neg |-> neg, m |-> m, e |-> e + shift]

\* -a
DoubleNegate(a) == IF a.m = <<>> THEN a ELSE [a EXCEPT !.neg = ~a.neg]

\* a * b
DoubleMultiply(a, b) ==
    IF a.m = <<>> \/ b.m = <<>> THEN DoubleZero
    ELSE RoundToDouble(a.neg # b.neg, BigMul(a.m, b.m), a.e + b.e, FALSE)

\* a + b
DoubleAdd(a, b) ==
    IF a.m = <<>> THEN b
    ELSE IF b.m = <<>> THEN a
    ELSE LET e == IF a.e <= b.e THEN a.e ELSE b.e
             x == BigShiftLeft(a.m, a.e - e)
             y == BigShiftLeft(b.m, b.e - e)
         IN  IF a.neg = b.neg THEN RoundToDouble(a.neg, BigAdd(x, y), e, FALSE)
             ELSE IF x = y THEN DoubleZero
             ELSE IF BigLess(x, y) THEN RoundToDouble(b.neg, BigSub(y, x), e, FALSE)
             ELSE RoundToDouble(a.neg, BigSub(x, y), e, FALSE)

QuotientBits == 70

\* count / totalWords, for natural numbers count and 0 < totalWords < LimbBase
DoubleDivide(count, totalWords) ==
    LET d == BigDivSmall(BigShiftLeft(BigFromInt(count), QuotientBits), totalWords)
    IN  RoundToDouble(FALSE, d.q, -QuotientBits, d.r # 0)

\* a <= x * 2^-scale, for a natural number x
DoubleAtMost(a, x, scale) ==
    \/ a.m = <<>>
    \/ a.neg
    \/ IF a.e + scale >= 0
       THEN ~BigLess(x, BigShiftLeft(a.m, a.e + scale))
       ELSE ~BigLess(BigShiftLeft(x, -(a.e + scale)), a.m)

\* |log2(count / n)| of the double count / n, for 1 <= count <= n <= 13,
\* rounded to the nearest double: its significand and exponent, and whether
\* the logarithm is an integer
Log2OfQuotient ==
    <<<<[m |-> <<>>, e |-> 0, exact |-> TRUE]>>,
      <<[m |-> <<0, 0, 0, 128>>, e |-> -52, exact |-> TRUE],
        [m |-> <<>>, e |-> 0, exact |-> TRUE]>>,
      <<[m |-> <<15721, 18239, 28678, 202>>, e |-> -52, exact |-> FALSE],
        [m |-> <<31442, 3710, 24589, 149>>, e |-> -53, exact |-> FALSE],
        [m |-> <<>>, e |-> 0, exact |-> TRUE]>>,
      <<[m |-> <<0, 0, 0, 128>>, e |-> -51, exact |-> TRUE],
        [m |-> <<0, 0, 0, 128>>, e |-> -52, exact |-> TRUE],
        [m |-> <<2654, 25346, 16357, 212>>, e |-> -54, exact |-> FALSE],
        [m |-> <<>>, e |-> 0, exact |-> TRUE]>>,
      <<[m |-> <<9073, 4851, 19772, 148>>, e |-> -51, exact |-> FALSE],
        [m |-> <<18146, 9702, 6776, 169>>, e |-> -52, exact |-> FALSE],
        [m |-> <<4853, 15694, 21731, 188>>, e |-> -53, exact |-> FALSE],
        [m |-> <<7050, 6042, 27105, 164>>, e |-> -54, exact |-> FALSE],
        [m |-> <<>>, e |-> 0, exact |-> TRUE]>>,
      <<[m |-> <<24244, 9119, 14339, 165>>, e |-> -51, exact |-> FALSE],
        [m |-> <<15721, 18239, 28678, 202>>, e |-> -52, exact |-> FALSE],
        [m |-> <<0, 0, 0, 128>>, e |-> -52, exact |-> TRUE],
        [m |-> <<31442, 3710, 24589, 149>>, e |-> -53, exact |-> FALSE],
        [m |-> <<23062, 1379, 22073, 134>>, e |-> -54, exact |-> FALSE],
        [m |-> <<>>, e |-> 0, exact |-> TRUE]>>,
      <<[m |-> <<1069, 32424, 21977, 179>>, e |-> -51, exact |-> FALSE],
        [m |-> <<2138, 32080, 11187, 231>>, e |-> -52, exact |-> FALSE],
        [m |-> <<19186, 13840, 15277, 156>>, e |-> -52, exact |-> FALSE],
        [m |-> <<4276, 31392, 22375, 206>>, e |-> -53, exact |-> FALSE],
        [m |-> <<1499, 23974, 17646, 248>>, e |-> -54, exact |-> FALSE],
        [m |-> <<22413, 12420, 23915, 227>>, e |-> -55, exact |-> FALSE],
        [m |-> <<>>, e |-> 0, exact |-> TRUE]>>,
      <<[m |-> <<0, 0, 0, 192>>, e |-> -51, exact |-> TRUE],
        [m |-> <<0, 0, 0, 128>>, e |-> -51, exact |-> TRUE],
        [m |-> <<17048, 14528, 4089, 181>>, e |-> -52, exact |-> FALSE],
        [m |-> <<0, 0, 0, 128>>, e |-> -52, exact |-> TRUE],
        [m |-> <<29243, 13362, 19215, 173>>, e |-> -53, exact |-> FALSE],
        [m |-> <<2654, 25346, 16357, 212>>, e |-> -54, exact |-> FALSE],
        [m |-> <<15666, 5503, 8800, 197>>, e |-> -55, exact |-> FALSE],
        [m |-> <<>>, e |-> 0, exact |-> TRUE]>>,
      <<[m |-> <<15721, 18239, 28678, 202>>, e |-> -51, exact |-> FALSE],
        [m |-> <<15721, 18239, 28678, 138>>, e |-> -51, exact |-> FALSE],
        [m |-> <<15721, 18239, 28678, 202>>, e |-> -52, exact |-> FALSE],
        [m |-> <<31441, 3710, 24589, 149>>, e |-> -52, exact |-> FALSE],
        [m |-> <<26588, 20784, 2857, 217>>, e |-> -53, exact |-> FALSE],
        [m |-> <<31442, 3710, 24589, 149>>, e |-> -53, exact |-> FALSE],
        [m |-> <<18909, 17595, 20836, 185>>, e |-> -54, exact |-> FALSE],
        [m |-> <<22155, 29687, 104, 174>>, e |-> -55, exact |-> FALSE],
        [m |-> <<>>, e |-> 0, exact |-> TRUE]>>,
      <<[m |-> <<9073, 4851, 19772, 212>>, e |-> -51, exact |-> FALSE],
        [m |-> <<9073, 4851, 19772, 148>>, e |-> -51, exact |-> FALSE],
        [m |-> <<2427, 24231, 10865, 222>>, e |-> -52, exact |-> FALSE],
        [m |-> <<18146, 9702, 6776, 169>>, e |-> -52, exact |-> FALSE],
        [m |-> <<0, 0, 0, 128>>, e |-> -52, exact |-> TRUE],
        [m |-> <<4853, 15694, 21731, 188>>, e |-> -53, exact |-> FALSE],
        [m |-> <<32019, 20780, 23944, 131>>, e |-> -53, exact |-> FALSE],
        [m |-> <<7050, 6042, 27105, 164>>, e |-> -54, exact |-> FALSE],
        [m |-> <<24717, 15164, 21337, 155>>, e |-> -55, exact |-> FALSE],
        [m |-> <<>>, e |-> 0, exact |-> TRUE]>>,
      <<[m |-> <<23874, 30732, 13225, 221>>, e |-> -51, exact |-> FALSE],
        [m |-> <<23874, 30732, 13225, 157>>, e |-> -51, exact |-> FALSE],
        [m |-> <<32028, 10457, 30541, 239>>, e |-> -52, exact |-> FALSE],
        [m |-> <<14980, 28697, 26451, 186>>, e |-> -52, exact |-> FALSE],
        [m |-> <<29601, 18994, 19675, 145>>, e |-> -52, exact |-> FALSE],
        [m |-> <<31288, 20915, 28314, 223>>, e |-> -53, exact |-> FALSE],
        [m |-> <<25684, 26002, 30527, 166>>, e |-> -53, exact |-> FALSE],
        [m |-> <<27150, 16485, 7503, 235>>, e |-> -54, exact |-> FALSE],
        [m |-> <<32458, 1641, 7451, 148>>, e |-> -54, exact |-> FALSE],
        [m |-> <<7434, 20887, 26332, 140>>, e |-> -55, exact |-> FALSE],
        [m |-> <<>>, e |-> 0, exact |-> TRUE]>>,
      <<[m |-> <<24244, 9119, 14339, 229>>, e |-> -51, exact |-> FALSE],
        [m |-> <<24244, 9119, 14339, 165>>, e |-> -51, exact |-> FALSE],
        [m |-> <<0, 0, 0, 128>>, e |-> -51, exact |-> TRUE],
        [m |-> <<15721, 18239, 28678, 202>>, e |-> -52, exact |-> FALSE],
        [m |-> <<30341, 8536, 21902, 161>>, e |-> -52, exact |-> FALSE],
        [m |-> <<0, 0, 0, 128>>, e |-> -52, exact |-> TRUE],
        [m |-> <<27165, 5086, 2213, 199>>, e |-> -53, exact |-> FALSE],
        [m |-> <<31442, 3710, 24589, 149>>, e |-> -53, exact |-> FALSE],
        [m |-> <<2654, 25346, 16357, 212>>, e |-> -54, exact |-> FALSE],
        [m |-> <<23062, 1379, 22073, 134>>, e |-> -54, exact |-> FALSE],
        [m |-> <<5928, 14640, 17813, 128>>, e |-> -55, exact |-> FALSE],
        [m |-> <<>>, e |-> 0, exact |-> TRUE]>>,
      <<[m |-> <<25139, 18211, 27136, 236>>, e |-> -51, exact |-> FALSE],
        [m |-> <<25139, 18211, 27136, 172>>, e |-> -51, exact |-> FALSE],
        [m |-> <<895, 9092, 12797, 135>>, e |-> -51, exact |-> FALSE],
        [m |-> <<17510, 3655, 21505, 217>>, e |-> -52, exact |-> FALSE],
        [m |-> <<32131, 26720, 14728, 176>>, e |-> -52, exact |-> FALSE],
        [m |-> <<1789, 18184, 25594, 142>>, e |-> -52, exact |-> FALSE],
        [m |-> <<30745, 8686, 20634, 228>>, e |-> -53, exact |-> FALSE],
        [m |-> <<2251, 7311, 10242, 179>>, e |-> -53, exact |-> FALSE],
        [m |-> <<4906, 32657, 26599, 135>>, e |-> -53, exact |-> FALSE],
        [m |-> <<30219, 8579, 26147, 193>>, e |-> -54, exact |-> FALSE],
        [m |-> <<20242, 29040, 25961, 246>>, e |-> -55, exact |-> FALSE],
        [m |-> <<28625, 28800, 16296, 236>>, e |-> -56, exact |-> FALSE],
        [m |-> <<>>, e |-> 0, exact |-> TRUE]>>>>

\* Math.log2(count / totalWords).  ECMA-262 leaves Math.log2
\* implementation-approximated: the model takes the nearest double or, where
\* the logarithm is not an integer, the double ulp places further from zero
MathLog2(count, totalWords, ulp) ==
    LET t == Log2OfQuotient[totalWords][count]
        m == IF t.exact \/ ulp = 0 THEN t.m
             ELSE IF ulp > 0 THEN BigAdd(t.m, <<1>>)
             ELSE BigSub(t.m, <<1>>)
    IN  RoundToDouble(TRUE, m, t.e, FALSE)

\* const probability = count / totalWords.  The quotients of two counts are
\* ordered as their doubles are, so the sort by the doubles is the sort of
\* calculateLetterStateProbabilities
ProbabilityOf(item) == DoubleDivide(item.probability.num, item.probability.den)

\* probability > 0 ? -Math.log2(probability) : 0
SelfInformationOf(item, ulp) ==
    IF item.probability.num > 0
    THEN DoubleNegate(MathLog2(item.probability.num, item.probability.den, ulp))
    ELSE DoubleZero

\* mutation: the self-information is added without its probability
WeightedTermUnweighted(item, ulp) == SelfInformationOf(item, ulp)

\* item.probability * item.selfInformation
WeightedTerm(item, ulp) ==
    DoubleMultiply(ProbabilityOf(item), SelfInformationOf(item, ulp))

\* weightedSum after the items from position k on
RECURSIVE WeightedSumOfDoubles(_, _, _, _)
WeightedSumOfDoubles(probabilityData, k, weightedSum, ulp) ==
    IF k > Len(probabilityData) THEN weightedSum
    ELSE WeightedSumOfDoubles(probabilityData, k + 1,
                              DoubleAdd(weightedSum, WeightedTerm(probabilityData[k], ulp)),
                              ulp)

\* calculateAverageEntropy, in the doubles of the code
calculateAverageEntropyDouble(guess, wordListArg, ulp) ==
    WeightedSumOfDoubles(calculateLetterStateProbabilities(guess, wordListArg), 1,
                         DoubleZero, ulp)

----------------------------------------------------------------------------
(* Inputs of the entropy model                                             *)

MaxPool == 3

\* the lists of at most n distinct words of Universe, in any order
RECURSIVE DistinctSeqs(_)
DistinctSeqs(n) ==
    IF n = 0 THEN {<<>>}
    ELSE DistinctSeqs(n - 1) \cup
         {Append(p, Universe[k]) : p \in {q \in DistinctSeqs(n - 1) : Len(q) = n - 1},
                                   k \in 1..Len(Universe)}

Pools == {p \in DistinctSeqs(MaxPool) : \A i, j \in 1..Len(p) : p[i] = p[j] => i = j}

EnGuesses == {slate, alley, toUpperCase(plane), bobby}
EnWordList == <<plate, place, plane, steal>>

InitEntropy ==
    /\ wordList = EnWordList
    /\ enGuess \in EnGuesses
    /\ enPool \in {Given(p) : p \in Pools} \cup {Undefined}
    /\ enProbs = <<>>
    /\ enEntropy = [num |-> 0, den |-> 1]
    /\ enDouble = DoubleZero /\ enLog2Ulp = 0
    /\ enBest = <<>>
    /\ enPc = "call"
    /\ IdleFeedback /\ IdleFilter /\ IdleSolve /\ IdleGame

\* calculateLetterStateProbabilities and calculateAverageEntropy return
EnScore ==
    /\ enPc = "call"
    /\ enProbs' = calculateLetterStateProbabilities(enGuess, enPool)
    /\ enEntropy' = calculateAverageEntropy(enGuess, enPool)
    /\ enPc' = "scored"
    /\ UNCHANGED <<wordList, enGuess, enPool, enDouble, enLog2Ulp, enBest, fbVars, flVars, svVars,
                   gmVars>>

\* findHighestEntropyGuess(enPool) returns
EnFindBest ==
    /\ enPc = "call"
    /\ ~findHighestEntropyGuessThrows(enPool)
    /\ enBest' = findHighestEntropyGuess(enPool)
    /\ enPc' = "returned"
    /\ UNCHANGED <<wordList, enGuess, enPool, enProbs, enEntropy, enDouble, enLog2Ulp, fbVars,
                   flVars, svVars, gmVars>>

\* findHighestEntropyGuess(enPool) throws
EnFindBestThrows ==
    /\ enPc = "call"
    /\ findHighestEntropyGuessThrows(enPool)
    /\ enPc' = "threw"
    /\ UNCHANGED <<wordList, enGuess, enPool, enProbs, enEntropy, enDouble, enLog2Ulp, enBest,
                   fbVars, flVars, svVars, gmVars>>

NextEntropy == EnScore \/ EnFindBest \/ EnFindBestThrows

SpecEntropy == InitEntropy /\ [][NextEntropy]_vars

----------------------------------------------------------------------------
(* calculateAverageEntropy in doubles, for word lists of up to             *)
(* MaxDoublePool words                                                     *)

MaxDoublePool == 11

stale == <<"s", "t", "a", "l", "e">>
table == <<"t", "a", "b", "l", "e">>
beast == <<"b", "e", "a", "s", "t">>
scalp == <<"s", "c", "a", "l", "p">>
nasty == <<"n", "a", "s", "t", "y">>
spelt == <<"s", "p", "e", "l", "t">>
panel == <<"p", "a", "n", "e", "l">>

\* slate scores each of these words with a pattern of its own
DbWords ==
    <<slate, plate, place, alley, least, steal, stale, table, beast, scalp, nasty, spelt,
      panel>>

DbPools == {Given(SubSeq(DbWords, 1, k)) : k \in 1..MaxDoublePool} \cup {Undefined}
DbGuesses == {slate, plane, alley, bobby}
Log2Ulps == {-1, 0, 1}

InitDouble ==
    /\ wordList = EnWordList
    /\ enGuess \in DbGuesses
    /\ enPool \in DbPools
    /\ enProbs = <<>>
    /\ enEntropy = [num |-> 0, den |-> 1]
    /\ enDouble = DoubleZero
    /\ enLog2Ulp \in Log2Ulps
    /\ enBest = <<>>
    /\ enPc = "call"
    /\ IdleFeedback /\ IdleFilter /\ IdleSolve /\ IdleGame

\* calculateAverageEntropy(enGuess, enPool) returns
DbScore ==
    /\ enPc = "call"
    /\ enProbs' = calculateLetterStateProbabilities(enGuess, enPool)
    /\ enDouble' = calculateAverageEntropyDouble(enGuess, enPool, enLog2Ulp)
    /\ enPc' = "scored"
    /\ UNCHANGED <<wordList, enGuess, enPool, enEntropy, enLog2Ulp, enBest, fbVars, flVars,
                   svVars, gmVars>>

NextDouble == DbScore

SpecDouble == InitDouble /\ [][NextDouble]_vars

----------------------------------------------------------------------------
(* src/services/solver.ts                                                  *)

optimalFirstGuess == slate

TargetLengthError == "Target word must be exactly 5 letters"

\* mutation: only targets that are too short are rejected
TargetLengthAtLeast == Len(targetWord) >= WordLength

\* the negation of the guard targetWord.length !== 5
TargetLengthOk == Len(targetWord) = WordLength

\* const target = targetWord.toLowerCase()
target == toLowerCase(targetWord)

\* mutation: the loop no longer stops once solved
LoopContinuesUntilBudget == attempt < maxAttempts

\* the loop condition: attempt < maxAttempts && !solved
LoopContinues == attempt < maxAttempts /\ ~solved

\* selectBestGuess reaches findHighestEntropyGuess and that call throws
selectBestGuessThrows(attemptNumber, availableWords) ==
    /\ attemptNumber # 0
    /\ Len(availableWords) # 1
    /\ findHighestEntropyGuessThrows(Given(availableWords))

\* mutation: the pool that is scored is the full word list
selectBestGuessScoresFullList(attemptNumber, availableWords) ==
    IF attemptNumber = 0 THEN optimalFirstGuess
    ELSE IF Len(availableWords) = 1 THEN availableWords[1]
    ELSE findHighestEntropyGuess(Given(getWordList)).guess

\* mutation: the opening word is returned at every attempt
selectBestGuessRepeatsOpening(attemptNumber, availableWords) ==
    IF attemptNumber >= 0 THEN optimalFirstGuess
    ELSE IF Len(availableWords) = 1 THEN availableWords[1]
    ELSE findHighestEntropyGuess(Given(availableWords)).guess

\* mutation: the first attempt is scored like the later ones
selectBestGuessAlwaysScores(attemptNumber, availableWords) ==
    IF Len(availableWords) = 1 THEN availableWords[1]
    ELSE findHighestEntropyGuess(Given(availableWords)).guess

\* mutation: a single candidate is answered from the head of the full list
selectBestGuessFromFullList(attemptNumber, availableWords) ==
    IF attemptNumber = 0 THEN optimalFirstGuess
    ELSE IF Len(availableWords) = 1 THEN getWordList[1]
    ELSE findHighestEntropyGuess(Given(availableWords)).guess

selectBestGuess(attemptNumber, availableWords) ==
    IF attemptNumber = 0 THEN optimalFirstGuess
    ELSE IF Len(availableWords) = 1 THEN availableWords[1]
    ELSE findHighestEntropyGuess(Given(availableWords)).guess

\* mutation: the candidates are counted before the new feedback is appended
RemainingWordsBeforeFeedback(isSolved, history) ==
    IF isSolved THEN 0
    ELSE Len(getAvailableWordsFromMultipleFeedbacks(SubSeq(history, 1, Len(history) - 1)))

\* mutation: the candidates are counted for the solving attempt too
RemainingWordsAlwaysCounted(isSolved, history) ==
    Len(getAvailableWordsFromMultipleFeedbacks(history))

\* solved ? 0 : getAvailableWordsFromMultipleFeedbacks(feedbackHistory).length
RemainingWordsAfterFeedback(isSolved, history) ==
    IF isSolved THEN 0 ELSE Len(getAvailableWordsFromMultipleFeedbacks(history))

----------------------------------------------------------------------------
(* Inputs of the solver                                                    *)

MaxAttemptsBound == 5

SvTargets ==
    Range(Universe) \cup {bobby, toUpperCase(plane)}
        \cup {<<>>, <<"a", "b", "c", "a">>, <<"a", "b", "c", "a", "b", "c">>}

Init ==
    /\ wordList \in WordLists
    /\ targetWord \in SvTargets
    /\ maxAttempts \in 0..MaxAttemptsBound
    /\ attempt = 0
    /\ attempts = <<>>
    /\ feedbackHistory = <<>>
    /\ solved = FALSE
    /\ svError = ""
    /\ svPc = "call"
    /\ IdleFeedback /\ IdleFilter /\ IdleEntropy /\ IdleGame

\* solve throws on a target that is not 5 characters long
SolveRejectTarget ==
    /\ svPc = "call"
    /\ ~TargetLengthOk
    /\ svError' = TargetLengthError
    /\ svPc' = "threw"
    /\ UNCHANGED <<wordList, targetWord, maxAttempts, attempt, attempts, feedbackHistory,
                   solved, fbVars, flVars, enVars, gmVars>>

\* solve passes the length check and enters the loop
SolveEnter ==
    /\ svPc = "call"
    /\ TargetLengthOk
    /\ svPc' = "loop"
    /\ UNCHANGED <<wordList, targetWord, maxAttempts, attempt, attempts, feedbackHistory,
                   solved, svError, fbVars, flVars, enVars, gmVars>>

\* one iteration of the loop
SolveAttempt ==
    /\ svPc = "loop"
    /\ LoopContinues
    /\ LET availableWords == getAvailableWordsFromMultipleFeedbacks(feedbackHistory)
       IN  /\ ~selectBestGuessThrows(attempt, availableWords)
           /\ LET guess == selectBestGuess(attempt, availableWords)
                  feedback == calculateWordleFeedback(guess, target)
                  history == Append(feedbackHistory, [guess |-> guess, feedback |-> feedback])
              IN  /\ feedbackHistory' = history
                  /\ solved' = isCorrectGuess(feedback)
                  /\ attempts' = Append(attempts,
                        [guess |-> toUpperCase(guess),
                         feedback |-> feedback,
                         remainingWords |->
                            RemainingWordsAfterFeedback(isCorrectGuess(feedback), history)])
    /\ attempt' = attempt + 1
    /\ UNCHANGED <<wordList, targetWord, maxAttempts, svError, svPc, fbVars, flVars, enVars, gmVars>>

\* an iteration in which selectBestGuess throws; solve does not catch it
SolveAttemptThrows ==
    /\ svPc = "loop"
    /\ LoopContinues
    /\ selectBestGuessThrows(attempt, getAvailableWordsFromMultipleFeedbacks(feedbackHistory))
    /\ svError' = NoWordsError
    /\ svPc' = "threw"
    /\ UNCHANGED <<wordList, targetWord, maxAttempts, attempt, attempts, feedbackHistory,
                   solved, fbVars, flVars, enVars, gmVars>>

\* the loop ends and solve returns {attempts, solved, targetWord}
SolveReturn ==
    /\ svPc = "loop"
    /\ ~LoopContinues
    /\ svPc' = "returned"
    /\ UNCHANGED <<wordList, targetWord, maxAttempts, attempt, attempts, feedbackHistory,
                   solved, svError, fbVars, flVars, enVars, gmVars>>

Next == SolveRejectTarget \/ SolveEnter \/ SolveAttempt \/ SolveAttemptThrows \/ SolveReturn

Spec == Init /\ [][Next]_vars

(* src/services/interactive-game.ts                                        *)

\* an answer typed at the prompt: a command word or a word of letters
Command(text) == [isCommand |-> TRUE, text |-> text]
Word(w) == [isCommand |-> FALSE, text |-> w]
NoAnswer == Word(<<>>)

\* answer.trim().toLowerCase()
TrimLower(answer) ==
    IF answer.isCommand
    THEN Command(IF answer.text \in {"hint", "HINT"} THEN "hint" ELSE "quit")
    ELSE Word(toLowerCase(answer.text))

\* getGuess resolves with the guess: 5 characters, only a-z, in this.wordList
IsValidGuess(guess) ==
    /\ Len(guess) = 5
    /\ \A i \in 1..Len(guess) : IsLowerChar(guess[i])
    /\ guess \in Range(getWordList)

\* provideHint: what it prints for the attempts made so far
provideHint(gameAttempts) ==
    LET allFeedbacks == [k \in 1..Len(gameAttempts) |->
                            [guess |-> gameAttempts[k].guess,
                             feedback |-> gameAttempts[k].feedback]]
        remainingWords == IF Len(allFeedbacks) = 0 THEN getWordList
                          ELSE getAvailableWordsFromMultipleFeedbacks(allFeedbacks)
    IN  IF Len(remainingWords) = 0 THEN [kind |-> "no words", word |-> <<>>]
        ELSE IF Len(remainingWords) = 1 THEN [kind |-> "only", word |-> remainingWords[1]]
        ELSE [kind |-> "suggests",
              word |-> findHighestEntropyGuess(Given(remainingWords)).guess]

\* mutation: the game ends only when the attempts exceed the budget
BudgetExceeded(attemptCount, budget) == attemptCount > budget

\* this.gameState.attempts.length >= this.gameState.maxAttempts
BudgetUsedUp(attemptCount, budget) == attemptCount >= budget

----------------------------------------------------------------------------
(* Inputs of the interactive game                                          *)

GmMaxAttemptsBound == 2

\* word lists that hold 'plane'
GmWordLists == {l \in WordLists : Len(l) + 1 >= MaxListLen /\ plane \in Range(l)}

GmSolutions == {plane, PLANE, alley, bobby, <<"a", "b", "c", "a">>}

\* what the player may type: listed words, a listed word in upper case, an
\* unlisted word, a word that is too short, and the commands
GmAnswers ==
    {Word(w) : w \in Range(wordList) \cup {PLANE, bobby, <<"a", "b">>}}
        \cup {Command("hint"), Command("quit"), Command("QUIT")}

\* new InteractiveWordleGame(solution, maxAttempts); play() is called
InitGame ==
    /\ wordList \in GmWordLists
    /\ \E solution \in GmSolutions : gmSolution = toLowerCase(solution)
    /\ gmMaxAttempts \in 0..GmMaxAttemptsBound
    /\ gmAttempts = <<>>
    /\ gmIsComplete = FALSE
    /\ gmIsWon = FALSE
    /\ gmAnswer = NoAnswer
    /\ gmHint = NoHint
    /\ gmError = ""
    /\ gmPc = "play"
    /\ IdleFeedback /\ IdleFilter /\ IdleEntropy /\ IdleSolve

\* a turn is played: the loop of play() has not seen isComplete
TurnOpen == gmPc = "play" /\ ~gmIsComplete

\* getGuess rejects the answer and asks again
GmRejectAnswer ==
    /\ TurnOpen
    /\ \E answer \in GmAnswers :
          /\ ~answer.isCommand
          /\ ~IsValidGuess(TrimLower(answer).text)
          /\ gmAnswer' = TrimLower(answer)
    /\ UNCHANGED <<wordList, gmSolution, gmMaxAttempts, gmAttempts, gmIsComplete, gmIsWon,
                   gmHint, gmError, gmPc, fbVars, flVars, enVars, svVars>>

\* playTurn with the answer 'quit'
GmQuit ==
    /\ TurnOpen
    /\ \E answer \in GmAnswers :
          /\ TrimLower(answer) = Command("quit")
          /\ gmAnswer' = TrimLower(answer)
    /\ gmIsComplete' = TRUE
    /\ UNCHANGED <<wordList, gmSolution, gmMaxAttempts, gmAttempts, gmIsWon, gmHint, gmError,
                   gmPc, fbVars, flVars, enVars, svVars>>

\* playTurn with the answer 'hint'
GmHint ==
    /\ TurnOpen
    /\ \E answer \in GmAnswers :
          /\ TrimLower(answer) = Command("hint")
          /\ gmAnswer' = TrimLower(answer)
    /\ gmHint' = provideHint(gmAttempts)
    /\ UNCHANGED <<wordList, gmSolution, gmMaxAttempts, gmAttempts, gmIsComplete, gmIsWon,
                   gmError, gmPc, fbVars, flVars, enVars, svVars>>

\* playTurn with a valid guess: processGuess(guess)
GmGuess ==
    /\ TurnOpen
    /\ \E answer \in GmAnswers :
          LET guess == TrimLower(answer).text
          IN  /\ ~answer.isCommand
              /\ IsValidGuess(guess)
              /\ FeedbackLengthOk(guess, gmSolution)
              /\ LET feedback == calculateWordleFeedback(guess, gmSolution)
                     isCorrect == isCorrectGuess(feedback)
                     pushed == Append(gmAttempts, [guess |-> guess, feedback |-> feedback,
                                                   isCorrect |-> isCorrect])
                 IN  /\ gmAttempts' = pushed
                     /\ gmIsWon' = IF isCorrect THEN TRUE ELSE gmIsWon
                     /\ gmIsComplete' =
                           IF isCorrect THEN TRUE
                           ELSE IF BudgetUsedUp(Len(pushed), gmMaxAttempts) THEN TRUE
                           ELSE gmIsComplete
              /\ gmAnswer' = TrimLower(answer)
    /\ UNCHANGED <<wordList, gmSolution, gmMaxAttempts, gmHint, gmError, gmPc,
                   fbVars, flVars, enVars, svVars>>

\* processGuess throws in calculateWordleFeedback: play() rejects
GmGuessThrows ==
    /\ TurnOpen
    /\ \E answer \in GmAnswers :
          /\ ~answer.isCommand
          /\ IsValidGuess(TrimLower(answer).text)
          /\ ~FeedbackLengthOk(TrimLower(answer).text, gmSolution)
          /\ gmAnswer' = TrimLower(answer)
    /\ gmError' = LengthError
    /\ gmPc' = "threw"
    /\ UNCHANGED <<wordList, gmSolution, gmMaxAttempts, gmAttempts, gmIsComplete, gmIsWon,
                   gmHint, fbVars, flVars, enVars, svVars>>

\* the loop of play() ends: the game state is returned
GmReturn ==
    /\ gmPc = "play"
    /\ gmIsComplete
    /\ gmPc' = "returned"
    /\ UNCHANGED <<wordList, gmSolution, gmMaxAttempts, gmAttempts, gmIsComplete, gmIsWon,
                   gmAnswer, gmHint, gmError, fbVars, flVars, enVars, svVars>>

NextGame == GmRejectAnswer \/ GmQuit \/ GmHint \/ GmGuess \/ GmGuessThrows \/ GmReturn

SpecGame == InitGame /\ [][NextGame]_vars

----------------------------------------------------------------------------
----------------------------------------------------------------------------
(* Properties of the feedback engine                                       *)

Count(w, x) == Cardinality({i \in 1..Len(w) : w[i] = x})

\* positions of the guess holding x that the feedback marks Correct or Present
Marked(feedback, guessLower, x) ==
    Cardinality({i \in 1..Len(feedback) :
                    guessLower[i] = x /\ feedback[i].state \in {CORRECT, PRESENT}})

Min2(a, b) == IF a <= b THEN a ELSE b

SameLetterIgnoringCase(c, d) ==
    \/ c = d
    \/ \E k \in 1..Len(LowerChars) : {c, d} = {LowerChars[k], UpperChars[k]}

EqualIgnoringCase(v, w) ==
    Len(v) = Len(w) /\ \A i \in 1..Len(v) : SameLetterIgnoringCase(v[i], w[i])

C9_CorrectIffSameLetter ==
    fbPc = "returned" =>
        /\ \A i \in 1..WordLength :
              (fbResult[i].state = CORRECT) <=> SameLetterIgnoringCase(fbGuess[i], fbTarget[i])
        /\ (fbGuess = fbTarget) => \A i \in 1..WordLength : fbResult[i].state = CORRECT
        /\ fbIsCorrect => EqualIgnoringCase(fbGuess, fbTarget)

\* an all-Correct result for a guess that differs from the target in case only
C9_Witness ==
    /\ fbPc = "returned"
    /\ fbIsCorrect
    /\ fbGuess # fbTarget
    /\ fbGuess = toUpperCase(fbTarget)

\* C17: when the guess or the target is not exactly 5 characters long (the
\* empty word included) the call ends in the length error and no feedback
\* is produced.
C17_BadLengthThrows ==
    (Len(fbGuess) # 5 \/ Len(fbTarget) # 5) =>
        /\ fbPc \in {"call", "threw"}
        /\ fbResult = <<>>
        /\ fbPc = "threw" => fbError = LengthError

\* a 5-letter guess against a 6-letter target has thrown
C17_Witness ==
    /\ fbPc = "threw"
    /\ fbError = LengthError
    /\ Len(fbGuess) = 5
    /\ Len(fbTarget) = 6

\* the letters of a word, in lower case
LettersOf(w) == {LowerOf[w[i]] : i \in 1..Len(w)}

\* C23: when guess and target have no letter in common, all five positions
\* are Absent.
C23_NoSharedLetterAllAbsent ==
    (fbPc = "returned" /\ LettersOf(fbGuess) \cap LettersOf(fbTarget) = {}) =>
        \A i \in 1..WordLength : fbResult[i].state = ABSENT

\* a guess of two different letters against a target made of a third one
C23_Witness ==
    /\ fbPc = "returned"
    /\ LettersOf(fbGuess) \cap LettersOf(fbTarget) = {}
    /\ Cardinality(LettersOf(fbGuess)) = 2
    /\ \A i \in 1..WordLength : fbResult[i].state = ABSENT

\* C25: when guess positions i < j hold the same letter, neither is an exact
\* match with the target and j is Present, then i is Present too.
C25_PresentLeftToRight ==
    fbPc = "returned" =>
        \A i, j \in 1..WordLength :
            (/\ i < j
             /\ LowerOf[fbGuess[i]] = LowerOf[fbGuess[j]]
             /\ LowerOf[fbGuess[i]] # LowerOf[fbTarget[i]]
             /\ LowerOf[fbGuess[j]] # LowerOf[fbTarget[j]]
             /\ fbResult[j].state = PRESENT)
            => fbResult[i].state = PRESENT

\* two copies of a letter, neither an exact match, the target holds it once:
\* the left copy is Present and the right copy Absent
C25_Witness ==
    /\ fbPc = "returned"
    /\ \E i, j \in 1..WordLength :
          /\ i < j
          /\ LowerOf[fbGuess[i]] = LowerOf[fbGuess[j]]
          /\ LowerOf[fbGuess[i]] # LowerOf[fbTarget[i]]
          /\ LowerOf[fbGuess[j]] # LowerOf[fbTarget[j]]
          /\ Count(toLowerCase(fbGuess), LowerOf[fbGuess[i]]) = 2
          /\ Count(toLowerCase(fbTarget), LowerOf[fbGuess[i]]) = 1
          /\ fbResult[i].state = PRESENT
          /\ fbResult[j].state = ABSENT

\* the positions of a feedback in state s
PositionsIn(feedback, s) == {i \in 1..Len(feedback) : feedback[i].state = s}

\* C28: no result has exactly four positions Correct and the fifth Present.
C28_NoFourCorrectOnePresent ==
    fbPc = "returned" =>
        ~(/\ Cardinality(PositionsIn(fbResult, CORRECT)) = 4
          /\ Cardinality(PositionsIn(fbResult, PRESENT)) = 1)

\* four exact matches; the fifth guess letter occurs in the target, only at
\* matched positions, and is Absent
C28_Witness ==
    /\ fbPc = "returned"
    /\ Cardinality(PositionsIn(fbResult, CORRECT)) = 4
    /\ \E i \in 1..WordLength :
          /\ fbResult[i].state = ABSENT
          /\ LowerOf[fbGuess[i]] \in LettersOf(fbTarget)

----------------------------------------------------------------------------
(* Properties of the candidate filter                                      *)

\* word c gives, for every entry of the history, exactly the entry's states
ConsistentWith(c, history) ==
    \A k \in 1..Len(history) :
        States(calculateWordleFeedback(history[k].guess, c)) = States(history[k].feedback)

\* C2: the result is the sub-list, in list order, of the words of the
\* reference list whose feedback equals the pattern of every history entry;
\* for the empty history it is the whole reference list.
C2_NarrowIsExactFilter ==
    flPc = "returned" =>
        /\ flResult = SelectSeq(wordList, LAMBDA c : ConsistentWith(c, flHistory))
        /\ (flHistory = <<>>) => flResult = wordList

\* two entries were applied and at least two words, but not all, survived
C2_Witness ==
    /\ flPc = "returned"
    /\ Len(flHistory) = 2
    /\ flHistory[1] # flHistory[2]
    /\ Len(flResult) >= 2
    /\ Len(flResult) < Len(wordList)
    /\ Len(filterWordsByFeedback(wordList, flHistory[1].guess, flHistory[1].feedback))
          > Len(flResult)

\* C10: for every word t of the list, a history all of whose entries are
\* the feedback t gives to the entry's guess leaves t in the result.
C10_TruthfulKeepsTarget ==
    flPc = "returned" =>
        \A t \in Range(wordList) :
            (\A k \in 1..Len(flHistory) :
                flHistory[k].feedback = calculateWordleFeedback(flHistory[k].guess, t))
            => t \in Range(flResult)

\* a two-entry truthful history that ruled out other words and kept the target
C10_Witness ==
    /\ flPc = "returned"
    /\ Len(flHistory) = 2
    /\ Len(flResult) < Len(wordList)
    /\ \E t \in Range(flResult) :
          /\ \A k \in 1..Len(flHistory) :
                /\ flHistory[k].feedback = calculateWordleFeedback(flHistory[k].guess, t)
                /\ ~isCorrectGuess(flHistory[k].feedback)

\* C11: filtering the result of narrow once more by the same history, entry
\* by entry in order, gives the result back unchanged.
C11_NarrowIdempotent ==
    flPc = "refiltered" => flAgain = flResult

\* a two-entry history that removed words and left some, filtered again
C11_Witness ==
    /\ flPc = "refiltered"
    /\ Len(flHistory) = 2
    /\ Len(flResult) >= 1
    /\ Len(flResult) < Len(wordList)
    /\ flAgain = flResult

\* the history's first k entries
Prefix(history, k) == SubSeq(history, 1, k)

\* C12: when no word of the list agrees with some prefix of the history,
\* the call returns (it has no error exit) and its result is the empty list
\* whatever the later entries are.
C12_EmptyStaysEmpty ==
    flPc = "returned" =>
        \A k \in 1..Len(flHistory) :
            (\A c \in Range(wordList) : ~ConsistentWith(c, Prefix(flHistory, k)))
                => flResult = <<>>

\* the first entry leaves no word; the second, taken alone, keeps a word
C12_Witness ==
    /\ flPc = "returned"
    /\ Len(flHistory) = 2
    /\ flResult = <<>>
    /\ Len(filterWordsByFeedback(wordList, flHistory[1].guess, flHistory[1].feedback)) = 0
    /\ Len(filterWordsByFeedback(wordList, flHistory[2].guess, flHistory[2].feedback)) > 0

\* C24: an entry (g, feedback) whose feedback is the one a target t gives to
\* g, with t different from g ignoring case, removes g: no word of the
\* result equals g ignoring case.
C24_TruthfulEntryRemovesGuess ==
    flPc = "returned" =>
        \A k \in 1..Len(flHistory) : \A t \in FlScoredAgainst :
            (/\ ~EqualIgnoringCase(flHistory[k].guess, t)
             /\ flHistory[k].feedback = calculateWordleFeedback(flHistory[k].guess, t))
            => \A w \in Range(flResult) : ~EqualIgnoringCase(w, flHistory[k].guess)

\* the guess LEAST scored against another word: 'least' was in the word
\* list and is not among the words that are left
C24_Witness ==
    /\ flPc = "returned"
    /\ Len(flHistory) = 1
    /\ flHistory[1].guess = toUpperCase(least)
    /\ \E t \in FlScoredAgainst :
          flHistory[1].feedback = calculateWordleFeedback(flHistory[1].guess, t)
    /\ least \in Range(wordList)
    /\ least \notin Range(flResult)
    /\ Len(flResult) >= 1

\* C29: a feedback with the same states but other letter fields, also
\* letters that do not spell the guess, keeps exactly the same words, through
\* getAvailableWordsFromMultipleFeedbacks and through the two-argument
\* getAvailableWordsFromFeedback.
C29_LettersDoNotMatter ==
    flPc = "relettered" =>
        /\ flOther = flResult
        /\ Len(flHistory) = 1 =>
              \A letters \in FlForgedLetters :
                  getAvailableWordsFromFeedback(StringArg(flHistory[1].guess),
                        WithLetters(flHistory[1].feedback, letters)) = flResult

\* words survived a history whose letters were then replaced by letters that
\* spell another word
C29_Witness ==
    /\ flPc = "relettered"
    /\ Len(flHistory) = 2
    /\ Len(flResult) >= 1
    /\ Len(flResult) < Len(wordList)
    /\ flOther = flResult

----------------------------------------------------------------------------
(* Properties of the entropy model                                         *)

\* the entries of probabilityData whose matchingWords hold the word c
EntriesHolding(probabilityData, c) ==
    {e \in 1..Len(probabilityData) : c \in Range(probabilityData[e].matchingWords)}

RECURSIVE SumOfCounts(_, _)
SumOfCounts(probabilityData, k) ==
    IF k > Len(probabilityData) THEN 0
    ELSE probabilityData[k].probability.num + SumOfCounts(probabilityData, k + 1)

C7_FirstMaximumEntropy ==
    enPc = "returned" =>
        LET pool == OrWordList(enPool)
        IN  \E k \in 1..Len(pool) :
               /\ enBest.guess = pool[k]
               /\ enBest.averageEntropy = calculateAverageEntropy(pool[k], enPool)
               /\ \A j \in 1..Len(pool) :
                     ~RatLess(enBest.averageEntropy, calculateAverageEntropy(pool[j], enPool))
               /\ \A j \in 1..(k - 1) :
                     RatLess(calculateAverageEntropy(pool[j], enPool), enBest.averageEntropy)

\* the maximum is reached by two pool words, after a word of lower entropy
C7_Witness ==
    /\ enPc = "returned"
    /\ enPool.given
    /\ Len(enPool.list) = 3
    /\ enBest.guess = enPool.list[2]
    /\ calculateAverageEntropy(enPool.list[3], enPool) = enBest.averageEntropy
    /\ RatLess(calculateAverageEntropy(enPool.list[1], enPool), enBest.averageEntropy)

\* C8: scoring against an empty candidate list fails instead of returning
C8_EmptyCandidatesFail ==
    ~(enPc = "scored" /\ Len(OrWordList(enPool)) = 0)

\* C16: findHighestEntropyGuess on an empty pool throws and returns no
\* result.
C16_EmptyPoolThrows ==
    (enPool.given /\ enPool.list = <<>>) =>
        /\ enPc \in {"call", "scored", "threw"}
        /\ enBest = <<>>

\* the call on the empty pool has thrown
C16_Witness ==
    /\ enPc = "threw"
    /\ enPool.given
    /\ enPool.list = <<>>
    /\ enBest = <<>>

\* C22: for a candidate list of exactly one word, whatever the guess,
\* calculateLetterStateProbabilities returns exactly one entry, with
\* probability 1 and selfInformation 0.
C22_SingleCandidateOneEntry ==
    (enPc = "scored" /\ Len(OrWordList(enPool)) = 1) =>
        /\ Len(enProbs) = 1
        /\ enProbs[1].probability.num = enProbs[1].probability.den
        /\ enProbs[1].selfInformation = 0

\* a guess scored against a single candidate that is another word
C22_Witness ==
    /\ enPc = "scored"
    /\ enPool.given
    /\ Len(enPool.list) = 1
    /\ toLowerCase(enGuess) # enPool.list[1]
    /\ Len(enProbs) = 1
    /\ enProbs[1].matchingWords = enPool.list

----------------------------------------------------------------------------
(* Properties of the solver                                                *)

LastAttempt == attempts[Len(attempts)]

\* C3: never more attempts than maxAttempts; no attempt follows an
\* all-Correct one; a returned trace ends either solved or with the budget
\* used up; solved is true exactly when the last attempt is all-Correct; and
\* solve(target, 1) returns exactly one attempt.
C3_StopsAtSolvedOrBudget ==
    /\ Len(attempts) <= maxAttempts
    /\ \A i \in 1..(Len(attempts) - 1) : ~isCorrectGuess(attempts[i].feedback)
    /\ svPc = "returned" =>
          /\ solved \/ Len(attempts) = maxAttempts
          /\ solved <=> (Len(attempts) > 0 /\ isCorrectGuess(LastAttempt.feedback))
    /\ (maxAttempts = 1 /\ Len(targetWord) = WordLength) =>
          /\ svPc # "threw"
          /\ svPc = "returned" => Len(attempts) = 1

\* a trace that was solved on its third attempt with budget to spare
C3_Witness ==
    /\ svPc = "returned"
    /\ solved
    /\ Len(attempts) = 3
    /\ maxAttempts > 3

\* C4 as stated: in a returned trace, for any 5-letter target, an attempt
\* records remainingWords = 0 exactly when its feedback is all-Correct
C4_ZeroIffAllCorrect ==
    svPc = "returned" =>
        \A i \in 1..Len(attempts) :
            (attempts[i].remainingWords = 0) <=> isCorrectGuess(attempts[i].feedback)

\* C4 (amended): in a returned trace an all-Correct attempt records
\* remainingWords = 0, and when the target is a word of the word list an
\* attempt records 0 only if it is all-Correct.
C4_ZeroIffAllCorrectForListedTarget ==
    svPc = "returned" =>
        \A i \in 1..Len(attempts) :
            /\ isCorrectGuess(attempts[i].feedback) => attempts[i].remainingWords = 0
            /\ (target \in Range(wordList) /\ attempts[i].remainingWords = 0)
                  => isCorrectGuess(attempts[i].feedback)

\* a listed target solved on the second attempt after a first attempt that
\* left several candidates
C4_Witness ==
    /\ svPc = "returned"
    /\ target \in Range(wordList)
    /\ Len(attempts) = 2
    /\ attempts[1].remainingWords > 1
    /\ attempts[2].remainingWords = 0
    /\ isCorrectGuess(attempts[2].feedback)

\* C5: when the candidates run out before the attempt budget does, solve
\* raises no error and returns the unsolved trace whose last attempt
\* records remainingWords = 0.
C5_EmptyCandidatesNoError ==
    (/\ Len(attempts) > 0
     /\ Len(attempts) < maxAttempts
     /\ ~solved
     /\ LastAttempt.remainingWords = 0)
    => (svPc # "threw" /\ svError = "")


\* C14: the first attempt of every trace guesses the fixed opening word
\* 'slate' (recorded as SLATE), whatever the word list is and without any
\* scoring failure; a returned trace with maxAttempts >= 1 has a first
\* attempt.
C14_FirstGuessIsOpening ==
    /\ Len(attempts) >= 1 =>
          /\ attempts[1].guess = <<"S", "L", "A", "T", "E">>
          /\ feedbackHistory[1].guess = <<"s", "l", "a", "t", "e">>
    /\ (svPc = "returned" /\ maxAttempts >= 1) => Len(attempts) >= 1
    /\ svError = NoWordsError => Len(attempts) >= 1

\* SLATE was guessed first although the word list does not hold it
C14_Witness ==
    /\ Len(attempts) >= 1
    /\ Len(wordList) >= 2
    /\ slate \notin Range(wordList)
    /\ attempts[1].guess = toUpperCase(slate)

\* C15: after an attempt that records remainingWords = 1 the next attempt
\* guesses that single remaining word; when the target is in the word list
\* that guess is the target and the attempt solves; such an attempt is the
\* last of a returned trace only when the budget is used up.
C15_SingleCandidateIsGuessed ==
    \A i \in 1..Len(attempts) :
        attempts[i].remainingWords = 1 =>
            /\ i < Len(attempts) =>
                  /\ attempts[i + 1].guess = toUpperCase(
                        getAvailableWordsFromMultipleFeedbacks(Prefix(feedbackHistory, i))[1])
                  /\ target \in Range(wordList) =>
                        /\ attempts[i + 1].guess = toUpperCase(target)
                        /\ isCorrectGuess(attempts[i + 1].feedback)
                        /\ Len(attempts) = i + 1
            /\ (i = Len(attempts) /\ svPc = "returned") => Len(attempts) = maxAttempts

\* the second attempt left one word, which is not the head of the word list,
\* and the third attempt guessed it and solved
C15_Witness ==
    /\ svPc = "returned"
    /\ Len(attempts) = 3
    /\ attempts[1].remainingWords > 1
    /\ attempts[2].remainingWords = 1
    /\ target \in Range(wordList)
    /\ target # wordList[1]
    /\ attempts[3].guess = toUpperCase(target)
    /\ solved


\* C18: a target that is not exactly 5 letters makes solve throw the length
\* error before the loop: no attempt is made, no guess or feedback enters
\* the history and no trace is returned.
C18_BadTargetThrowsBeforeAttempts ==
    Len(targetWord) # 5 =>
        /\ svPc \in {"call", "threw"}
        /\ svPc = "threw" => svError = TargetLengthError
        /\ attempts = <<>>
        /\ feedbackHistory = <<>>
        /\ attempt = 0
        /\ ~solved

\* solve has thrown on a 6-letter target with a positive budget
C18_Witness ==
    /\ svPc = "threw"
    /\ svError = TargetLengthError
    /\ Len(targetWord) = 6
    /\ maxAttempts >= 1
    /\ attempts = <<>>

\* the history of the first i attempts, rebuilt from the trace
HistoryOf(i) ==
    [k \in 1..i |-> [guess |-> toLowerCase(attempts[k].guess),
                     feedback |-> attempts[k].feedback]]

\* C19: an attempt that is not all-Correct records the number of words that
\* getAvailableWordsFromMultipleFeedbacks returns for the history up to and
\* including that attempt; an all-Correct attempt records 0.
C19_RemainingCountsHistory ==
    \A i \in 1..Len(attempts) :
        attempts[i].remainingWords =
            IF isCorrectGuess(attempts[i].feedback) THEN 0
            ELSE Len(getAvailableWordsFromMultipleFeedbacks(HistoryOf(i)))

\* two unsolved attempts with different positive counts, then the solving one
C19_Witness ==
    /\ svPc = "returned"
    /\ Len(attempts) = 3
    /\ attempts[1].remainingWords > attempts[2].remainingWords
    /\ attempts[2].remainingWords > 0
    /\ attempts[1].remainingWords < Len(wordList)
    /\ attempts[3].remainingWords = 0
    /\ solved

\* C20: each longer prefix of the history leaves at most as many candidates
\* as the shorter one, and the recorded remainingWords never increase from
\* one attempt to the next.
C20_RemainingNonIncreasing ==
    /\ \A k \in 1..Len(feedbackHistory) :
          Len(getAvailableWordsFromMultipleFeedbacks(Prefix(feedbackHistory, k)))
              <= Len(getAvailableWordsFromMultipleFeedbacks(Prefix(feedbackHistory, k - 1)))
    /\ \A i \in 1..(Len(attempts) - 1) :
          attempts[i + 1].remainingWords <= attempts[i].remainingWords

\* an unlisted target: the count falls between two attempts that do not solve
C20_Witness ==
    /\ Len(attempts) >= 2
    /\ target \notin Range(wordList)
    /\ attempts[1].remainingWords < Len(wordList)
    /\ attempts[1].remainingWords > attempts[2].remainingWords


\* C26: every guess from the second attempt on is a word of the candidate
\* list computed from all earlier (guess, feedback) pairs, and no guess
\* occurs twice in a trace.
C26_GuessIsCandidate ==
    /\ \A i \in 2..Len(attempts) :
          toLowerCase(attempts[i].guess) \in
              Range(getAvailableWordsFromMultipleFeedbacks(Prefix(feedbackHistory, i - 1)))
    /\ \A i, j \in 1..Len(attempts) : attempts[i].guess = attempts[j].guess => i = j

\* three attempts on a word list that holds the opening word
C26_Witness ==
    /\ svPc = "returned"
    /\ Len(attempts) = 3
    /\ slate \in Range(wordList)
    /\ attempts[2].guess # attempts[3].guess
    /\ attempts[1].remainingWords >= 2

\* the target is a word of the word list
TargetListed == TargetLengthOk /\ target \in Range(wordList)

\* C27: for a target of the word list, the target stays a candidate, a
\* guess that does not solve leaves the candidates, solve does not throw,
\* the loop always has a candidate to guess, its counter is the number of
\* attempts and stays within the budget, it makes at most |word list| + 1
\* attempts, and with a budget of at least |word list| + 1 the returned trace
\* is solved.
C27_ListedTargetGetsSolved ==
    TargetListed =>
        /\ svPc # "threw"
        /\ (svPc = "loop" /\ LoopContinues)
              => getAvailableWordsFromMultipleFeedbacks(feedbackHistory) # <<>>
        /\ Len(attempts) <= Len(wordList) + 1
        /\ attempt = Len(attempts) /\ attempt <= maxAttempts
        /\ \A i \in 1..Len(attempts) :
              LET candidates ==
                      getAvailableWordsFromMultipleFeedbacks(Prefix(feedbackHistory, i))
              IN  /\ target \in Range(candidates)
                  /\ ~isCorrectGuess(attempts[i].feedback)
                        => toLowerCase(attempts[i].guess) \notin Range(candidates)
        /\ (svPc = "returned" /\ maxAttempts >= Len(wordList) + 1) => solved

\* a listed target solved at the third attempt, with a budget of at least
\* |word list| + 1 and the opening word not in the list
C27_Witness ==
    /\ svPc = "returned"
    /\ TargetListed
    /\ maxAttempts >= Len(wordList) + 1
    /\ slate \notin Range(wordList)
    /\ solved
    /\ Len(attempts) = 3


----------------------------------------------------------------------------
(* Properties of the interactive game                                      *)

LastGameAttempt == gmAttempts[Len(gmAttempts)]

\* what holds of the game state after any sequence of turns
GameStateConsistent ==
    /\ Len(gmAttempts) <= gmMaxAttempts
    /\ gmIsWon =>
          /\ gmIsComplete
          /\ Len(gmAttempts) >= 1
          /\ LastGameAttempt.isCorrect
          /\ isCorrectGuess(LastGameAttempt.feedback)

\* a turn answered with 'hint' leaves the attempts and both flags as they were
HintTurnChangesNothing ==
    gmAnswer' = Command("hint") =>
        /\ gmAttempts' = gmAttempts
        /\ gmIsComplete' = gmIsComplete
        /\ gmIsWon' = gmIsWon

\* once isComplete is set no attempt is added
NoGuessOnceComplete == gmIsComplete => gmAttempts' = gmAttempts

\* C30: with maxAttempts >= 1, after any sequence of turns: at most
\* maxAttempts attempts; isWon implies isComplete and a correct last attempt;
\* a 'hint' turn adds no attempt and changes neither flag; no guess is
\* processed once isComplete is set.
C30_GameStateInvariants ==
    /\ [](gmMaxAttempts >= 1 => GameStateConsistent)
    /\ [][gmMaxAttempts >= 1 => (HintTurnChangesNothing /\ NoGuessOnceComplete)]_vars

\* a game lost at a budget of two attempts, with a hint asked after the first
C30_Witness ==
    /\ gmPc = "returned"
    /\ gmMaxAttempts = 2
    /\ Len(gmAttempts) = 2
    /\ ~gmIsWon
    /\ gmIsComplete
    /\ gmHint # NoHint
    /\ gmHint = provideHint(<<gmAttempts[1]>>)

----------------------------------------------------------------------------
(* Properties of calculateAverageEntropy in doubles                        *)

Log2ScaleBits == QuotientBits

\* floor(log2(n) * 2^Log2ScaleBits) for n = 1..13
Log2Scaled ==
    <<<<>>,
      <<0, 0, 0, 0, 1024>>,
      <<26600, 27459, 14843, 52, 1623>>,
      <<0, 0, 0, 0, 2048>>,
      <<32329, 14101, 12084, 21442, 2377>>,
      <<26600, 27459, 14843, 52, 2647>>,
      <<19658, 17101, 27264, 23967, 2874>>,
      <<0, 0, 0, 0, 3072>>,
      <<20432, 22151, 29687, 104, 3246>>,
      <<32329, 14101, 12084, 21442, 3401>>,
      <<32318, 21533, 203, 15007, 3542>>,
      <<26600, 27459, 14843, 52, 3671>>,
      <<6749, 9007, 29244, 8200, 3789>>>>

\* 2^-20, below 1e-6, in units of 2^-Log2ScaleBits
Log2Tolerance == BigShiftLeft(<<1>>, Log2ScaleBits - 20)

\* the smallest double that is not below log2(n), in units of
\* 2^-Log2ScaleBits: the largest value "log2(n)" can stand for
Log2RoundedUp(n) ==
    LET x == Log2Scaled[n]
        shift == BigBitLength(x) - SignificandBits
        truncated == BigShiftRight(x, shift)
    IN  IF x = <<>> \/ BigShiftLeft(truncated, shift) = x THEN x
        ELSE BigShiftLeft(BigAdd(truncated, <<1>>), shift)

CandidateCount == Len(OrWordList(enPool))

\* the sum of probability * selfInformation over the first k returned patterns
RECURSIVE DoubleSumUpTo(_)
DoubleSumUpTo(k) ==
    IF k = 0 THEN DoubleZero
    ELSE DoubleAdd(DoubleSumUpTo(k - 1),
                   DoubleMultiply(ProbabilityOf(enProbs[k]),
                                  SelfInformationOf(enProbs[k], enLog2Ulp)))

EntropyIsWeightedSum ==
    /\ enDouble = DoubleSumUpTo(Len(enProbs))
    /\ enDouble.m = <<>> \/ ~enDouble.neg

\* C21 as stated: for a nonempty candidate list the entropy is the sum over
\* the returned patterns of probability times selfInformation, and
\* 0 <= entropy <= log2(number of candidates), log2 rounded up to a double.
C21_EntropyAtMostLog2 ==
    (enPc = "scored" /\ CandidateCount >= 1) =>
        /\ EntropyIsWeightedSum
        /\ DoubleAtMost(enDouble, Log2RoundedUp(CandidateCount), Log2ScaleBits)

\* C21: for a nonempty candidate list the entropy is the sum over the
\* returned patterns of probability times selfInformation, it is at least 0,
\* and it exceeds log2(number of candidates) by less than 1e-6.
C21_EntropyAtMostLog2UpToRounding ==
    (enPc = "scored" /\ CandidateCount >= 1) =>
        /\ EntropyIsWeightedSum
        /\ DoubleAtMost(enDouble, BigAdd(Log2Scaled[CandidateCount], Log2Tolerance),
                        Log2ScaleBits)

\* eleven candidates, each with a pattern of its own, and Math.log2 rounded
\* to the nearest double: the sum of the eleven rounded terms lies above
\* log2(11)
C21_Witness ==
    /\ enPc = "scored"
    /\ enLog2Ulp = 0
    /\ CandidateCount = 11
    /\ Len(enProbs) = 11
    /\ enDouble.m # <<>> /\ ~enDouble.neg
    /\ ~DoubleAtMost(enDouble, Log2RoundedUp(11), Log2ScaleBits)
====
